---- MODULE Spec2Model ----
(***************************************************************************)
(* Model of sqlite3_utility.py: a schema-inferring layer over SQLite.      *)
(*                                                                         *)
(* The database file is the only state the module has.  Every public       *)
(* function is one action; it is computed by an operator that follows the  *)
(* Python code statement by statement and returns the database it leaves   *)
(* behind, the exception it raises (if any), the exceptions its handlers   *)
(* caught, and the SQL statements it issued.                               *)
(***************************************************************************)
EXTENDS Integers, Sequences, FiniteSets, TLC

VARIABLES db, last, conns, open_conns

vars == <<db, last, conns, open_conns>>

(***************************************************************************)
(* Bounds of the model.                                                    *)
(***************************************************************************)
\* longest json_list handed to sqlite3_import_json2table
MaxRecords == 2
\* rows a table may hold before sqlite3_add_record is no longer offered
MaxRows == 2

(***************************************************************************)
(* Python values.  tag is the dynamic type; n the number (a float n stands *)
(* for n/2, so 3 is 1.5 and 2 is 1.0); s the text of a str; p describes    *)
(* the content of a bytes object (the tag of the value it is the pickle    *)
(* of) or the form of a str ("qrepr": a quote, the repr of a pickle, a     *)
(* quote, as line 245 builds it).  The same records are the values SQLite  *)
(* stores: int = INTEGER, float = REAL, str = TEXT, bytes = BLOB,          *)
(* none = NULL.                                                            *)
(***************************************************************************)
IntV(n) == [tag |-> "int", n |-> n, s |-> "", p |-> ""]
FloatV(n) == [tag |-> "float", n |-> n, s |-> "", p |-> ""]
StrV(s) == [tag |-> "str", n |-> 0, s |-> s, p |-> ""]
NoneV == [tag |-> "none", n |-> 0, s |-> "", p |-> ""]

\* the outcome of a Python expression: a value, or the exception it raises
Ok(v) == [raised |-> "", value |-> v]
Raise(e) == [raised |-> e, value |-> NoneV]

(***************************************************************************)
(* Column names are sequences of atoms: a run of identifier characters, or *)
(* one of the characters " ", "-", "_" on its own.                         *)
(***************************************************************************)
id == <<"id">>
age == <<"age">>
name == <<"name">>
rowid == <<"rowid">>
zz == <<"zz">>
first_sp_name == <<"first", " ", "name">>
first_hy_name == <<"first", "-", "name">>
id_sp_desc == <<"id", " ", "desc">>

\* re.sub("-| ", "_", str(string))
replace_specialchars2underscore(string) ==
    [i \in DOMAIN string |-> IF string[i] \in {"-", " "} THEN "_" ELSE string[i]]

(***************************************************************************)
(* Python dicts keep insertion order: a dict is a sequence of [k, v].      *)
(***************************************************************************)
Item(k, v) == [k |-> k, v |-> v]
DictKeys(d) == [i \in DOMAIN d |-> d[i].k]
HasKey(d, k) == \E i \in DOMAIN d : d[i].k = k
DictGet(d, k) == d[CHOOSE i \in DOMAIN d : d[i].k = k].v
\* dict(d, **{k: v}): overwrite in place, or append
DictSet(d, k, v) ==
    IF HasKey(d, k)
    THEN [i \in DOMAIN d |-> IF d[i].k = k THEN Item(k, v) ELSE d[i]]
    ELSE Append(d, Item(k, v))

Range(f) == {f[i] : i \in DOMAIN f}
NoDup(f) == \A i, j \in DOMAIN f : f[i] = f[j] => i = j

(***************************************************************************)
(* Codec: pickle.dumps(data, 0) and pickle.loads(data).                    *)
(***************************************************************************)
binary_encode(data) == [tag |-> "bytes", n |-> data.n, s |-> data.s, p |-> data.tag]

binary_decode(data) ==
    IF data.tag # "bytes" THEN Raise("TypeError")
    ELSE IF data.p \notin {"int", "float", "str", "none"} THEN Raise("UnpicklingError")
    ELSE Ok([tag |-> data.p, n |-> data.n, s |-> data.s, p |-> ""])

\* f"'{binary_encode(x)}'": a str holding a quote, the repr of the bytes, a quote
QuotedRepr(x) == [tag |-> "str", n |-> x.n, s |-> x.s, p |-> "qrepr"]

\* sqlite3.Binary(data): a buffer over a bytes-like object
Binary(data) == IF data.tag = "bytes" THEN Ok(data) ELSE Raise("TypeError")

(***************************************************************************)
(* The SQLite database: for each table name, whether the table exists, its *)
(* columns as PRAGMA table_info reports them (declaration order; pk is the *)
(* 1-based rank in the primary key, 0 for no key column) and its rows in   *)
(* insertion order, one value per column.                                  *)
(***************************************************************************)
TableNames == {"people"}

NoTable == [exists |-> FALSE, cols |-> <<>>, rows |-> <<>>]

ColNames(t) == [i \in DOMAIN t.cols |-> t.cols[i].name]
ColIndex(t, c) == CHOOSE i \in DOMAIN t.cols : t.cols[i].name = c

\* column affinity of a declared type (INT, REAL or none)
Affinity(type, v) ==
    IF type = "INT" /\ v.tag = "float" /\ v.n % 2 = 0 THEN IntV(v.n \div 2)
    ELSE IF type = "REAL" /\ v.tag = "int" THEN FloatV(2 * v.n)
    ELSE v

\* SQL comparison =: numbers by value, NULL equal to nothing, the rest by content
SqlEq(a, b) ==
    IF a.tag = "none" \/ b.tag = "none" THEN FALSE
    ELSE IF a.tag \in {"int", "float"} /\ b.tag \in {"int", "float"}
    THEN (IF a.tag = "int" THEN 2 * a.n ELSE a.n) = (IF b.tag = "int" THEN 2 * b.n ELSE b.n)
    ELSE a = b

\* the value of the text str(v) read as an SQL expression in a VALUES list:
\* a numeric literal is its number; a bare word is a column reference, which
\* VALUES does not allow; the quoted repr of a pickle, 'b'...'', ends its
\* literal after the b and is a syntax error
SqlLiteral(v) ==
    IF v.tag \in {"int", "float"} THEN Ok(v) ELSE Raise("OperationalError")

\* an entry of PRIMARY KEY (...): a column name, optionally followed by ASC
\* or DESC; a hyphen makes it an expression, which is prohibited
PKColumn(item) ==
    IF \E i \in DOMAIN item : item[i] = "-" THEN Raise("OperationalError")
    ELSE IF \A i \in DOMAIN item : item[i] # " " THEN Ok(item)
    ELSE IF /\ Len(item) >= 3
            /\ item[Len(item) - 1] = " "
            /\ item[Len(item)] \in {"asc", "desc"}
            /\ \A i \in 1..(Len(item) - 2) : item[i] # " "
    THEN Ok(SubSeq(item, 1, Len(item) - 2))
    ELSE Raise("OperationalError")

\* CREATE TABLE table(coldefs, PRIMARY KEY (pk))
ExecCreate(d, st) ==
    LET names == [i \in DOMAIN st.coldefs |-> st.coldefs[i].name]
        keys == [i \in DOMAIN st.pk |-> PKColumn(st.pk[i])]
        rank(c) == IF \E i \in DOMAIN keys : keys[i].value = c
                   THEN CHOOSE i \in DOMAIN keys :
                          /\ keys[i].value = c
                          /\ \A j \in 1..(i - 1) : keys[j].value # c
                   ELSE 0
    IN  IF \/ d[st.table].exists
           \/ ~NoDup(names)
           \/ \E i \in DOMAIN keys : keys[i].raised # ""
           \/ \E i \in DOMAIN keys : keys[i].value \notin Range(names)
        THEN [err |-> "OperationalError", db |-> d, rows |-> <<>>]
        ELSE [err |-> "",
              db |-> [d EXCEPT ![st.table] =
                        [exists |-> TRUE,
                         cols |-> [i \in DOMAIN st.coldefs |->
                                     [name |-> names[i],
                                      type |-> st.coldefs[i].type,
                                      notnull |-> st.coldefs[i].notnull,
                                      pk |-> rank(names[i])]],
                         rows |-> <<>>]],
              rows |-> <<>>]

\* DROP TABLE table
ExecDrop(d, st) ==
    IF ~d[st.table].exists
    THEN [err |-> "OperationalError", db |-> d, rows |-> <<>>]
    ELSE [err |-> "", db |-> [d EXCEPT ![st.table] = NoTable], rows |-> <<>>]

\* PRAGMA table_info('table'): one row per column, none for a missing table
ExecPragma(d, st) ==
    [err |-> "", db |-> d, rows |-> d[st.table].cols]

\* SELECT * from table
ExecSelect(d, st) ==
    IF ~d[st.table].exists
    THEN [err |-> "OperationalError", db |-> d, rows |-> <<>>]
    ELSE [err |-> "", db |-> d, rows |-> d[st.table].rows]

\* INSERT INTO table (cols) VALUES (vals).  With st.bound the values are
\* bound parameters; otherwise each is the text str(v) inside the statement.
ExecInsert(d, st) ==
    LET t == d[st.table]
        exprs == [i \in DOMAIN st.vals |->
                    IF st.bound THEN Ok(st.vals[i]) ELSE SqlLiteral(st.vals[i])]
        given(c) == IF c \in Range(st.cols)
                    THEN exprs[CHOOSE i \in DOMAIN st.cols : st.cols[i] = c].value
                    ELSE NoneV
        row == [i \in DOMAIN t.cols |-> Affinity(t.cols[i].type, given(t.cols[i].name))]
        keycols == {i \in DOMAIN t.cols : t.cols[i].pk > 0}
    IN  IF \/ ~t.exists
           \/ st.cols = <<>>
           \/ Len(st.cols) # Len(st.vals)
           \/ \E i \in DOMAIN st.cols : st.cols[i] \notin Range(ColNames(t))
           \/ \E i \in DOMAIN exprs : exprs[i].raised # ""
        THEN [err |-> "OperationalError", db |-> d, rows |-> <<>>]
        ELSE IF \/ \E i \in DOMAIN t.cols : t.cols[i].notnull /\ row[i].tag = "none"
                \/ /\ keycols # {}
                   /\ \E r \in DOMAIN t.rows : \A i \in keycols : SqlEq(t.rows[r][i], row[i])
        THEN [err |-> "IntegrityError", db |-> d, rows |-> <<>>]
        ELSE [err |-> "",
              db |-> [d EXCEPT ![st.table].rows = Append(t.rows, row)],
              rows |-> <<>>]

\* UPDATE table SET c = ?,... WHERE k = ?,k2 = ? with bound parameters.  The
\* conditions are joined the way the statement text joins them: st.wherejoin
\* is "," (a syntax error between two conditions) or " AND ".
ExecUpdate(d, st) ==
    LET t == d[st.table]
        hit(r) == \A i \in DOMAIN st.wherecols :
                     SqlEq(r[ColIndex(t, st.wherecols[i])], st.wherevals[i])
        set(r) == [i \in DOMAIN t.cols |->
                     IF t.cols[i].name \in Range(st.setcols)
                     THEN Affinity(t.cols[i].type,
                            st.setvals[CHOOSE j \in DOMAIN st.setcols :
                                          /\ st.setcols[j] = t.cols[i].name
                                          /\ \A k \in (j + 1)..Len(st.setcols) :
                                                st.setcols[k] # t.cols[i].name])
                     ELSE r[i]]
    IN  IF \/ ~t.exists
           \/ st.setcols = <<>>
           \/ st.wherecols = <<>>
           \/ Len(st.wherecols) > 1 /\ st.wherejoin = ","
           \/ \E i \in DOMAIN st.setcols : st.setcols[i] \notin Range(ColNames(t))
           \/ \E i \in DOMAIN st.wherecols : st.wherecols[i] \notin Range(ColNames(t))
        THEN [err |-> "OperationalError", db |-> d, rows |-> <<>>]
        ELSE [err |-> "",
              db |-> [d EXCEPT ![st.table].rows =
                        [r \in DOMAIN t.rows |-> IF hit(t.rows[r]) THEN set(t.rows[r])
                                                 ELSE t.rows[r]]],
              rows |-> <<>>]

Execute(d, st) ==
    CASE st.kind = "CREATE" -> ExecCreate(d, st)
      [] st.kind = "DROP" -> ExecDrop(d, st)
      [] st.kind = "PRAGMA" -> ExecPragma(d, st)
      [] st.kind = "SELECT" -> ExecSelect(d, st)
      [] st.kind = "INSERT" -> ExecInsert(d, st)
      [] st.kind = "UPDATE" -> ExecUpdate(d, st)

(***************************************************************************)
(* Connections.  A handle is what sqlite3.connect returns: open until its  *)
(* close() is called; exit is what leaving a `with conn:` block did to the *)
(* transaction of the handle, "" for a handle that never was in one.       *)
(***************************************************************************)
\* sqlite3.connect(db_path)
connect == [open |-> TRUE, exit |-> ""]

\* `with sqlite3.connect(db_path) as conn:` in the place of lines 28 and 29:
\* the connection's own __exit__ ends the transaction and closes nothing
closing_absent(conn) == conn

\* contextlib.closing(conn): __exit__ calls conn.close(), whether the block
\* ends normally, with return or with an exception
closing(conn) == [conn EXCEPT !.open = FALSE]

\* `with conn:`: __exit__ commits when the block ends without an exception
\* (ok) and rolls back when an exception leaves it
with_conn(conn, ok) == [conn EXCEPT !.exit = IF ok THEN "commit" ELSE "rollback"]

\* the handle of lines 28-31 and of lines 42-45 once the function is left;
\* ok: cursor.execute raised nothing
SafeExecuteConnection(ok) == closing(with_conn(connect, ok))

\* the handle of lines 314-315 once the with block is left: pd.read_sql
\* runs its SELECT on conn outside any `with conn:`
ReadSqlConnection == closing(connect)

\* the handles behind the statements of a log, one connection per statement:
\* SELECT is the statement of line 315, every other goes through
\* sqlite3_safe_execute or sqlite3_safe_execute_binary
ConnectionsOf(log) ==
    [i \in DOMAIN log |->
       IF log[i].kind = "SELECT" THEN ReadSqlConnection
       ELSE SafeExecuteConnection(log[i].ok)]

\* the number of handles among cs that were left open
StillOpen(cs) == Cardinality({i \in DOMAIN cs : cs[i].open})

(***************************************************************************)
(* The Python functions.  Each returns a record: raised, the exception     *)
(* that leaves the function ("" when it returns normally); value, what it  *)
(* returns; db, the database afterwards; log, the statements it executed   *)
(* with their success; caught, the exceptions an except clause inside it   *)
(* caught and did not re-raise.                                            *)
(***************************************************************************)
Result(raised, value, d, log, caught) ==
    [raised |-> raised, value |-> value, db |-> d, log |-> log, caught |-> caught]

\* what the function returns for the backend's answer r: the connection
\* commits on success and rolls back on error, so r.db is what the file holds
Executed(statement, r) ==
    Result(r.err, r.rows, r.db, <<[kind |-> statement.kind, ok |-> r.err = ""]>>, <<>>)

sqlite3_safe_execute(d, statement) == Executed(statement, Execute(d, statement))

sqlite3_safe_execute_binary(d, statement) == Executed(statement, Execute(d, statement))

\* lines 75-83 on the rows x of the PRAGMA: table_info_transpose[0] of an
\* empty result raises IndexError; value: the columns of the table
TableInfoOf(x) ==
    IF x.value = <<>> THEN Result("IndexError", <<>>, x.db, x.log, <<>>) ELSE x

sqlite3_get_tableinfo(d, table) ==
    TableInfoOf(sqlite3_safe_execute(d, [kind |-> "PRAGMA", table |-> table]))

\* The name new_table that lines 89 and 101 read is bound nowhere in the
\* module: it is neither a parameter nor a module-level name.
Unbound == "<unbound>"
module_new_table == Unbound

\* the names of the columns with key[i] > 0, in the order sorted() by key gives
SortedPositive(names, key) ==
    LET K == {i \in DOMAIN names : key[i] > 0}
        before(i) == {j \in K : key[j] < key[i] \/ (key[j] = key[i] /\ j < i)}
    IN  [r \in 1..Cardinality(K) |->
           names[CHOOSE i \in K : Cardinality(before(i)) = r - 1]]

\* lines 90-95
PrimaryKeysOf(info) ==
    LET PK == SortedPositive([i \in DOMAIN info.value |-> info.value[i].name],
                             [i \in DOMAIN info.value |-> info.value[i].pk])
    IN  IF info.raised # "" THEN info
        ELSE IF PK # <<>> THEN Result("", PK, info.db, info.log, <<>>)
        ELSE Result("", <<rowid>>, info.db, info.log, <<>>)

sqlite3_get_primarykeys(d, table) ==
    IF module_new_table = Unbound THEN Result("NameError", <<>>, d, <<>>, <<>>)
    ELSE PrimaryKeysOf(sqlite3_get_tableinfo(d, module_new_table))

\* lines 102-107; value: [none |-> TRUE] stands for None
NotNullOf(info) ==
    LET notnull == SortedPositive([i \in DOMAIN info.value |-> info.value[i].name],
                                  [i \in DOMAIN info.value |->
                                     IF info.value[i].notnull THEN 1 ELSE 0])
    IN  IF info.raised # "" THEN info
        ELSE Result("", [none |-> notnull = <<>>, cols |-> notnull],
                    info.db, info.log, <<>>)

sqlite3_get_notnull(d, table) ==
    IF module_new_table = Unbound THEN Result("NameError", <<>>, d, <<>>, <<>>)
    ELSE NotNullOf(sqlite3_get_tableinfo(d, module_new_table))

\* lines 121-128 for the outcome x of the INSERT: the handler prints and returns
AddRecordExecuted(info, x) ==
    Result("", NoneV, x.db, info.log \o x.log,
           IF x.raised # "" THEN <<x.raised>> ELSE <<>>)

\* lines 114-128 with the schema info of line 113
AddRecordTry(info, table, column_vals) ==
    IF info.raised # "" THEN info
    ELSE IF Len(info.value) # Len(column_vals)
    THEN Result("", NoneV, info.db, info.log, <<"ValueError">>)
    ELSE AddRecordExecuted(info,
            sqlite3_safe_execute(info.db,
                [kind |-> "INSERT", table |-> table,
                 cols |-> [i \in DOMAIN info.value |-> info.value[i].name],
                 vals |-> column_vals, bound |-> FALSE]))

sqlite3_add_record(d, table, column_vals) ==
    AddRecordTry(sqlite3_get_tableinfo(d, table), table, column_vals)

\* line 147 and the handler: statement is bound, the handler re-raises
AddRecordBinaryExecuted(log, x) == Result(x.raised, NoneV, x.db, log \o x.log, <<>>)

\* lines 136-153.  An exception before line 146 reaches the handler with
\* statement unbound, and print(statement) raises UnboundLocalError instead.
AddRecordBinaryTry(info, nn, table, add_keys) ==
    LET add_cols == DictKeys(add_keys)
        add_vals_bin == [i \in DOMAIN add_keys |-> Binary(add_keys[i].v)]
    IN  IF nn.raised # "" THEN Result(nn.raised, NoneV, nn.db, info.log \o nn.log, <<>>)
        ELSE IF \/ nn.value.none
                \/ Range(nn.value.cols) \ Range(add_cols) # {}
                \/ \E i \in DOMAIN add_vals_bin : add_vals_bin[i].raised # ""
        THEN Result("UnboundLocalError", NoneV, nn.db, info.log \o nn.log, <<>>)
        ELSE AddRecordBinaryExecuted(info.log \o nn.log,
                sqlite3_safe_execute_binary(nn.db,
                    [kind |-> "INSERT", table |-> table, cols |-> add_cols,
                     vals |-> [i \in DOMAIN add_keys |-> add_vals_bin[i].value],
                     bound |-> TRUE]))

\* line 135 with the schema info of line 134
AddRecordBinaryNotNull(info, table, add_keys) ==
    IF info.raised # "" THEN info
    ELSE AddRecordBinaryTry(info, sqlite3_get_notnull(info.db, table), table, add_keys)

sqlite3_add_record_binary(d, table, add_keys) ==
    AddRecordBinaryNotNull(sqlite3_get_tableinfo(d, table), table, add_keys)

\* line 180 and the handler: statement is bound, the handler re-raises
UpdateExecuted(log, x) == Result(x.raised, NoneV, x.db, log \o x.log, <<>>)

\* lines 162-186.  An exception before line 178 reaches the handler with
\* statement unbound, and print(statement) raises UnboundLocalError instead.
UpdateTry(info, pk, table, primary_keys, update_keys) ==
    LET table_cols == [i \in DOMAIN info.value |-> info.value[i].name]
        pk_cols == DictKeys(primary_keys)
        update_cols == DictKeys(update_keys)
    IN  IF pk.raised # "" THEN Result(pk.raised, NoneV, pk.db, info.log \o pk.log, <<>>)
        ELSE IF \/ Range(pk.value) # Range(pk_cols)
                \/ Range(update_cols) \ Range(table_cols) # {}
        THEN Result("UnboundLocalError", NoneV, pk.db, info.log \o pk.log, <<>>)
        ELSE UpdateExecuted(info.log \o pk.log,
                sqlite3_safe_execute_binary(pk.db,
                    [kind |-> "UPDATE", table |-> table,
                     setcols |-> update_cols,
                     setvals |-> [i \in DOMAIN update_keys |->
                                    binary_encode(update_keys[i].v)],
                     wherecols |-> pk_cols,
                     wherevals |-> [i \in DOMAIN primary_keys |->
                                      binary_encode(primary_keys[i].v)],
                     wherejoin |-> ","]))

\* line 160 with the schema info of line 159
UpdatePrimaryKeys(info, table, primary_keys, update_keys) ==
    IF info.raised # "" THEN info
    ELSE UpdateTry(info, sqlite3_get_primarykeys(info.db, table), table,
                   primary_keys, update_keys)

sqlite3_update_record_binary(d, table, primary_keys, update_keys) ==
    UpdatePrimaryKeys(sqlite3_get_tableinfo(d, table), table, primary_keys, update_keys)

\* dtype is type(value), always a type object
sqlite3_parse_datatypes(dtype) ==
    IF dtype = "int" THEN "INT"
    ELSE IF dtype = "float" THEN "REAL"
    ELSE ""

\* lines 241-247: the values of one record as sqlite3_add_record gets them
ColumnsValsConverted(item, column_names, column_types_parsed) ==
    [k \in DOMAIN column_names |->
       IF column_types_parsed[k] = ""
       THEN QuotedRepr(binary_encode(DictGet(item, column_names[k])))
       ELSE DictGet(item, column_names[k])]

\* Lines 240-248 for the records json_list[i..]: stops at the first exception
\* that leaves the loop body.  KeyError: item[key] of a record without key.
RECURSIVE ImportRecords(_, _, _, _, _, _, _, _)
RECURSIVE ImportRecordAdded(_, _, _, _, _, _, _, _)
ImportRecords(d, new_table, json_list, i, column_names, column_types_parsed, log, caught) ==
    IF i > Len(json_list) THEN Result("", NoneV, d, log, caught)
    ELSE IF \E k \in DOMAIN column_names : ~HasKey(json_list[i], column_names[k])
    THEN Result("KeyError", NoneV, d, log, caught)
    ELSE ImportRecordAdded(
            sqlite3_add_record(d, new_table,
                ColumnsValsConverted(json_list[i], column_names, column_types_parsed)),
            new_table, json_list, i, column_names, column_types_parsed, log, caught)

\* after line 248 for record i, r being what sqlite3_add_record did
ImportRecordAdded(r, new_table, json_list, i, column_names, column_types_parsed, log, caught) ==
    IF r.raised # ""
    THEN Result(r.raised, NoneV, r.db, log \o r.log, caught \o r.caught)
    ELSE ImportRecords(r.db, new_table, json_list, i + 1, column_names,
                       column_types_parsed, log \o r.log, caught \o r.caught)

\* lines 252-256: the handler drops the table and returns
ImportDropped(load, drop) ==
    Result(drop.raised, NoneV, drop.db, load.log \o drop.log,
           Append(load.caught, load.raised))

ImportLoaded(new_table, load) ==
    IF load.raised = "" THEN load
    ELSE ImportDropped(load,
            sqlite3_safe_execute(load.db, [kind |-> "DROP", table |-> new_table]))

\* line 235 moved into the try block of line 238: a failed CREATE TABLE
\* reaches the handler, which drops the table
ImportCreated_in_try(c, new_table, json_list, column_names, column_types_parsed) ==
    IF c.raised # ""
    THEN ImportLoaded(new_table, Result(c.raised, NoneV, c.db, c.log, <<>>))
    ELSE ImportLoaded(new_table,
            ImportRecords(c.db, new_table, json_list, 1, column_names,
                          column_types_parsed, c.log, <<>>))

\* lines 236-256, c being what the CREATE TABLE of line 235 did
ImportCreated(c, new_table, json_list, column_names, column_types_parsed) ==
    IF c.raised # "" THEN c
    ELSE ImportLoaded(new_table,
            ImportRecords(c.db, new_table, json_list, 1, column_names,
                          column_types_parsed, c.log, <<>>))

\* the test of line 227 with the sides of "in" exchanged (every column must
\* be a key)
PKListInvalid_reversed(PK_list, column_names) ==
    \E k \in DOMAIN column_names : column_names[k] \notin Range(PK_list)

\* line 227: some item of PK_list is no key of the first dict
PKListInvalid(PK_list, column_names) ==
    \E k \in DOMAIN PK_list : PK_list[k] \notin Range(column_names)

\* lines 217-235 with the PK_list and json_list of lines 213-215
ImportValidated(d, new_table, json_list, PK_list) ==
    LET column_names == DictKeys(json_list[1])
        column_types == [k \in DOMAIN column_names |-> json_list[1][k].v.tag]
        column_types_parsed ==
            [k \in DOMAIN column_names |-> sqlite3_parse_datatypes(column_types[k])]
        column_notnull == [k \in DOMAIN column_names |-> column_names[k] \in Range(PK_list)]
        column_names_parsed ==
            [k \in DOMAIN column_names |-> replace_specialchars2underscore(column_names[k])]
        column_definition ==
            [k \in DOMAIN column_names |->
               [name |-> column_names_parsed[k], type |-> column_types_parsed[k],
                notnull |-> column_notnull[k]]]
    IN  IF json_list = <<>> THEN Result("IndexError", NoneV, d, <<>>, <<>>)
        ELSE IF PKListInvalid(PK_list, column_names)
        THEN Result("ValueError", NoneV, d, <<>>, <<>>)
        ELSE ImportCreated(
                sqlite3_safe_execute(d,
                    [kind |-> "CREATE", table |-> new_table,
                     coldefs |-> column_definition, pk |-> PK_list]),
                new_table, json_list, column_names, column_types_parsed)

\* PK_list = <<>> stands for None and for the empty list (line 213 tells
\* neither apart).  Every item of json_list is a dict.
sqlite3_import_json2table(d, new_table, json_list, PK_list) ==
    IF PK_list = <<>>
    THEN ImportValidated(d, new_table,
            [i \in DOMAIN json_list |-> DictSet(json_list[i], rowid, IntV(i - 1))],
            <<rowid>>)
    ELSE ImportValidated(d, new_table, json_list, PK_list)

\* int(x) and float(x) of a value read from the database
PyInt(x) ==
    IF x.tag = "int" THEN Ok(x)
    ELSE IF x.tag = "float" THEN Ok(IntV(x.n \div 2))
    ELSE IF x.tag = "none" THEN Raise("TypeError")
    ELSE Raise("ValueError")

PyFloat(x) ==
    IF x.tag = "float" THEN Ok(x)
    ELSE IF x.tag = "int" THEN Ok(FloatV(2 * x.n))
    ELSE IF x.tag = "none" THEN Raise("TypeError")
    ELSE Raise("ValueError")

\* lines 322-330 for one value of a column of the declared type
ParseValue(type, x) ==
    IF type = "" THEN binary_decode(x)
    ELSE IF type = "TEXT" THEN Ok(x)
    ELSE IF type = "INT" THEN PyInt(x)
    ELSE IF type = "REAL" THEN PyFloat(x)
    ELSE Ok(x)

\* lines 319-331 on the rows df and the schema info; value: one dict per
\* row, in the order SELECT returned the rows
ParseColumns(df, info) ==
    LET cells == [r \in DOMAIN df.value |->
                    [k \in DOMAIN info.value |->
                       ParseValue(info.value[k].type, df.value[r][k])]]
        bad == {rk \in (DOMAIN df.value) \X (DOMAIN info.value) :
                  cells[rk[1]][rk[2]].raised # ""}
        first == CHOOSE rk \in bad :
                    \A o \in bad : rk[2] < o[2] \/ (rk[2] = o[2] /\ rk[1] <= o[1])
    IN  IF info.raised # "" THEN Result(info.raised, <<>>, info.db, df.log \o info.log, <<>>)
        ELSE IF bad # {}
        THEN Result(cells[first[1]][first[2]].raised, <<>>, info.db,
                    df.log \o info.log, <<>>)
        ELSE Result("",
                    [r \in DOMAIN df.value |->
                       [k \in DOMAIN info.value |->
                          Item(info.value[k].name, cells[r][k].value)]],
                    info.db, df.log \o info.log, <<>>)

\* lines 318-331 on what pd.read_sql of line 315 returned
ParseRead(df, table) ==
    IF df.raised # "" THEN Result("DatabaseError", <<>>, df.db, df.log, <<>>)
    ELSE ParseColumns(df, sqlite3_get_tableinfo(df.db, table))

sqlite3_parse_table2dataframe(d, table) ==
    ParseRead(sqlite3_safe_execute(d, [kind |-> "SELECT", table |-> table]), table)

(***************************************************************************)
(* The callers' inputs.                                                    *)
(***************************************************************************)
\* the key orders of the dicts handed to sqlite3_import_json2table
Shapes == {<<id, age>>, <<id, id_sp_desc>>, <<id, first_sp_name>>, <<id, first_hy_name>>}

\* the values a caller stores under a key
ValuesOf(k) ==
    IF k = id THEN {IntV(1), IntV(2)}
    ELSE IF k = age THEN {FloatV(3), StrV("Ann")}
    ELSE {IntV(1)}

\* the dicts with exactly the keys ks, in that order
DictsOver(ks) ==
    {[i \in DOMAIN ks |-> Item(ks[i], f[i])] :
        f \in {g \in [DOMAIN ks -> UNION {ValuesOf(ks[i]) : i \in DOMAIN ks}] :
                 \A i \in DOMAIN ks : g[i] \in ValuesOf(ks[i])}}

\* a record has all the keys of its shape, or lacks the last one
RecordsOf(shape) == DictsOver(shape) \cup DictsOver(SubSeq(shape, 1, Len(shape) - 1))

SeqsUpTo(S, n) == UNION {[1..k -> S] : k \in 0..n}

JsonLists(shape) == SeqsUpTo(RecordsOf(shape), MaxRecords)

\* the PK_list arguments that go with a shape: none (<<>>), one key, the
\* other, both against the order of the dict, and a name that is no key
PKLists(shape) == {<<>>, <<shape[1]>>, <<shape[2]>>, <<shape[2], shape[1]>>, <<zz>>}

\* the lists handed to sqlite3_add_record
ColumnVals == UNION {[1..k -> {IntV(1), IntV(2), StrV("Ann")}] : k \in 2..3}

\* the dicts handed to sqlite3_add_record_binary
AddKeys == {<<Item(id, binary_encode(IntV(2))), Item(age, binary_encode(IntV(1)))>>,
            <<Item(id, binary_encode(IntV(2)))>>}

\* the dicts handed to sqlite3_update_record_binary
PrimaryKeys == {<<Item(rowid, IntV(0))>>, <<Item(id, IntV(1))>>,
                <<Item(age, IntV(1)), Item(id, IntV(1))>>, <<Item(zz, IntV(1))>>}
UpdateKeys == {<<Item(age, IntV(2))>>, <<Item(zz, IntV(2))>>}

(***************************************************************************)
(* State: db, the database file; last, the latest call: the function, its  *)
(* arguments, the table as it was before the call, and what the call did;  *)
(* conns, the handles the latest call opened, in the order of its          *)
(* statements; open_conns, how many handles of all the calls so far are    *)
(* still open.                                                             *)
(***************************************************************************)
Call(op, table, args, pre, r) ==
    [op |-> op, table |-> table, args |-> args, pre |-> pre,
     raised |-> r.raised, value |-> r.value, log |-> r.log, caught |-> r.caught]

\* no call has returned that the caller has not yet taken note of
Idle == Call("", "", <<>>, NoTable, Result("", NoneV, <<>>, <<>>, <<>>))

\* the handles a call with the outcome r has opened, and what it left open
Connected(r) ==
    /\ conns' = ConnectionsOf(r.log)
    /\ open_conns' = open_conns + StillOpen(conns')

Init ==
    /\ db = [t \in TableNames |-> NoTable]
    /\ last = Idle
    /\ conns = <<>>
    /\ open_conns = 0

ImportJson2Table ==
    /\ last.op = ""
    /\ \E t \in TableNames, shape \in Shapes :
       \E json_list \in JsonLists(shape), PK_list \in PKLists(shape) :
        LET r == sqlite3_import_json2table(db, t, json_list, PK_list)
        IN  /\ db' = r.db
            /\ Connected(r)
            /\ last' = Call("sqlite3_import_json2table", t,
                            [json_list |-> json_list, PK_list |-> PK_list], db[t], r)

AddRecord ==
    /\ last.op = ""
    /\ \E t \in TableNames, column_vals \in ColumnVals :
        LET r == sqlite3_add_record(db, t, column_vals)
        IN  /\ Len(db[t].rows) < MaxRows
            /\ db' = r.db
            /\ Connected(r)
            /\ last' = Call("sqlite3_add_record", t, [column_vals |-> column_vals], db[t], r)

AddRecordBinary ==
    /\ last.op = ""
    /\ \E t \in TableNames, add_keys \in AddKeys :
        LET r == sqlite3_add_record_binary(db, t, add_keys)
        IN  /\ Len(db[t].rows) < MaxRows
            /\ db' = r.db
            /\ Connected(r)
            /\ last' = Call("sqlite3_add_record_binary", t, [add_keys |-> add_keys], db[t], r)

UpdateRecordBinary ==
    /\ last.op = ""
    /\ \E t \in TableNames, primary_keys \in PrimaryKeys, update_keys \in UpdateKeys :
        LET r == sqlite3_update_record_binary(db, t, primary_keys, update_keys)
        IN  /\ db' = r.db
            /\ Connected(r)
            /\ last' = Call("sqlite3_update_record_binary", t,
                            [primary_keys |-> primary_keys, update_keys |-> update_keys],
                            db[t], r)

GetTableInfo ==
    /\ last.op = ""
    /\ \E t \in TableNames :
        LET r == sqlite3_get_tableinfo(db, t)
        IN  /\ db' = r.db
            /\ Connected(r)
            /\ last' = Call("sqlite3_get_tableinfo", t, <<>>, db[t], r)

GetPrimaryKeys ==
    /\ last.op = ""
    /\ \E t \in TableNames :
        LET r == sqlite3_get_primarykeys(db, t)
        IN  /\ db' = r.db
            /\ Connected(r)
            /\ last' = Call("sqlite3_get_primarykeys", t, <<>>, db[t], r)

ParseTable2Dataframe ==
    /\ last.op = ""
    /\ \E t \in TableNames :
        LET r == sqlite3_parse_table2dataframe(db, t)
        IN  /\ db' = r.db
            /\ Connected(r)
            /\ last' = Call("sqlite3_parse_table2dataframe", t, <<>>, db[t], r)

\* the calls are synchronous: the caller looks at the outcome of one call
\* before it makes the next
Return ==
    /\ last.op # ""
    /\ last' = Idle
    /\ conns' = <<>>
    /\ UNCHANGED <<db, open_conns>>

Next ==
    \/ Return
    \/ ImportJson2Table
    \/ AddRecord
    \/ AddRecordBinary
    \/ UpdateRecordBinary
    \/ GetTableInfo
    \/ GetPrimaryKeys
    \/ ParseTable2Dataframe

Spec == Init /\ [][Next]_vars

(***************************************************************************)
(* Properties.                                                             *)
(***************************************************************************)
Import == "sqlite3_import_json2table"

\* the latest call executed a statement of this kind, with this success
Logged(kind, ok) == \E i \in DOMAIN last.log : last.log[i] = [kind |-> kind, ok |-> ok]

\* the primary-key columns of a table
KeyColumns(t) == {t.cols[i].name : i \in {j \in DOMAIN t.cols : t.cols[j].pk > 0}}

\* the key columns sqlite3_import_json2table was asked for
AskedKeys == IF last.args.PK_list = <<>> THEN <<rowid>> ELSE last.args.PK_list

\* C1: all-or-nothing creation.  When sqlite3_import_json2table has created
\* the table and the insertion of a record failed (a backend error, or a
\* record without a column of the first record), the table does not exist
\* when the call is over.
C1_AllOrNothing ==
    (/\ last.op = Import
     /\ Logged("CREATE", TRUE)
     /\ Logged("INSERT", FALSE) \/ "KeyError" \in Range(last.caught))
    => ~db[last.table].exists

\* C2: no error is silently ignored.  When an INSERT fails inside
\* sqlite3_add_record or during the bulk load of sqlite3_import_json2table,
\* the call ends with an exception.
C2_NoSilentFailure ==
    (/\ last.op \in {Import, "sqlite3_add_record"}
     /\ Logged("INSERT", FALSE))
    => last.raised # ""

\* C3: create-then-read round trip.  After sqlite3_import_json2table without
\* PK_list has returned for n >= 1 records with the keys of the first one,
\* sqlite3_parse_table2dataframe returns n records, the i-th with every value
\* of the i-th input record and the row identity i - 1.
C3_RoundTrip ==
    (/\ last.op = Import
     /\ last.raised = ""
     /\ last.args.PK_list = <<>>
     /\ last.args.json_list # <<>>
     /\ \A i \in DOMAIN last.args.json_list :
           DictKeys(last.args.json_list[i]) = DictKeys(last.args.json_list[1]))
    => LET read == sqlite3_parse_table2dataframe(db, last.table)
           json_list == last.args.json_list
       IN  /\ read.raised = ""
           /\ Len(read.value) = Len(json_list)
           /\ \A i \in DOMAIN json_list :
                 /\ \A k \in DOMAIN json_list[i] :
                       Item(replace_specialchars2underscore(json_list[i][k].k),
                            json_list[i][k].v) \in Range(read.value[i])
                 /\ Item(rowid, IntV(i - 1)) \in Range(read.value[i])

\* C4: an update whose keys are exactly the primary-key columns and whose
\* changed columns exist changes the rows matching every key value, and
\* nothing else: in those rows each changed column has the new value, and
\* every other row and column is as before.
C4_UpdateApplies ==
    (/\ last.op = "sqlite3_update_record_binary"
     /\ last.pre.exists
     /\ Range(DictKeys(last.args.primary_keys)) = KeyColumns(last.pre)
     /\ Range(DictKeys(last.args.update_keys)) \subseteq Range(ColNames(last.pre)))
    => LET pre == last.pre
           now == db[last.table]
           keys == last.args.primary_keys
           changed == last.args.update_keys
           matches(r) == \A i \in DOMAIN keys : SqlEq(r[ColIndex(pre, keys[i].k)], keys[i].v)
       IN  /\ now.cols = pre.cols
           /\ Len(now.rows) = Len(pre.rows)
           /\ \A r \in DOMAIN pre.rows : \A c \in DOMAIN pre.cols :
                 IF matches(pre.rows[r]) /\ HasKey(changed, pre.cols[c].name)
                 THEN SqlEq(now.rows[r][c], DictGet(changed, pre.cols[c].name))
                 ELSE now.rows[r][c] = pre.rows[r][c]

\* C5: an insert that does not supply exactly the columns of the table fails
\* with an exception and leaves the table as it was: a list of another
\* length for sqlite3_add_record, a dict with other keys for
\* sqlite3_add_record_binary.
C5_InsertColumnSet ==
    /\ (/\ last.op = "sqlite3_add_record"
        /\ last.pre.exists
        /\ Len(last.args.column_vals) # Len(last.pre.cols))
       => (last.raised # "" /\ db[last.table] = last.pre)
    /\ (/\ last.op = "sqlite3_add_record_binary"
        /\ last.pre.exists
        /\ Range(DictKeys(last.args.add_keys)) # Range(ColNames(last.pre)))
       => (last.raised # "" /\ db[last.table] = last.pre)

\* C6: update validation.  Keys other than the primary-key columns, or a
\* changed column the table does not have, make the update fail with the
\* ValueError of lines 169 and 171 before any UPDATE is executed, the table
\* unchanged; with matching keys and known columns that error is not raised.
C6_UpdateValidation ==
    (last.op = "sqlite3_update_record_binary" /\ last.pre.exists)
    => IF \/ Range(DictKeys(last.args.primary_keys)) # KeyColumns(last.pre)
          \/ ~(Range(DictKeys(last.args.update_keys)) \subseteq Range(ColNames(last.pre)))
       THEN /\ last.raised = "ValueError"
            /\ ~Logged("UPDATE", TRUE) /\ ~Logged("UPDATE", FALSE)
            /\ db[last.table] = last.pre
       ELSE last.raised # "ValueError"

\* C7: schema-key invariant.  In a table sqlite3_import_json2table has
\* created, the columns with a primary-key rank are exactly the key columns
\* asked for (their names sanitized), the i-th of them has rank i, and each
\* is NOT NULL.
C7_SchemaKey ==
    (/\ last.op = Import
     /\ Logged("CREATE", TRUE)
     /\ db[last.table].exists)
    => LET t == db[last.table]
           keys == [i \in DOMAIN AskedKeys |-> replace_specialchars2underscore(AskedKeys[i])]
       IN  /\ KeyColumns(t) = Range(keys)
           /\ \A i \in DOMAIN keys : \E c \in DOMAIN t.cols :
                 /\ t.cols[c].name = keys[i]
                 /\ t.cols[c].pk = i
                 /\ t.cols[c].notnull

\* C8: sqlite3_import_json2table with a PK_list naming something that is no
\* key of the first record raises ValueError before any statement is
\* executed: the database is as before, so no table was created and no
\* record inserted.
C8_InvalidKey ==
    (/\ last.op = Import
     /\ last.args.json_list # <<>>
     /\ \E k \in DOMAIN last.args.PK_list :
           ~HasKey(last.args.json_list[1], last.args.PK_list[k]))
    => /\ last.raised = "ValueError"
       /\ last.log = <<>>
       /\ db[last.table] = last.pre

C8_Witness ==
    /\ last.op = Import
    /\ last.args.PK_list = <<zz>>
    /\ Len(last.args.json_list) = MaxRecords
    /\ last.raised = "ValueError"
    /\ ~db[last.table].exists

\* C9: sqlite3_import_json2table for a table that exists raises, and the
\* table, its columns and its rows, is as before.
C9_ExistingTableGuard ==
    (last.op = Import /\ last.pre.exists)
    => /\ last.raised # ""
       /\ db[last.table] = last.pre

C9_Witness ==
    /\ last.op = Import
    /\ last.pre.exists
    /\ last.pre.rows # <<>>
    /\ last.log = <<[kind |-> "CREATE", ok |-> FALSE]>>
    /\ last.raised = "OperationalError"

\* C10: sqlite3_get_primarykeys of an existing table returns the names of
\* its primary-key columns in the order of their rank, <<rowid>> when it has
\* none, and never the empty list.
C10_PrimaryKeys ==
    (last.op = "sqlite3_get_primarykeys" /\ last.pre.exists)
    => /\ last.raised = ""
       /\ last.value # <<>>
       /\ IF KeyColumns(last.pre) = {} THEN last.value = <<rowid>>
          ELSE /\ Range(last.value) = KeyColumns(last.pre)
               /\ \A i \in DOMAIN last.value : \E c \in DOMAIN last.pre.cols :
                     last.pre.cols[c].name = last.value[i] /\ last.pre.cols[c].pk = i

\* the statements that write to the database
Writes == {"CREATE", "DROP", "INSERT", "UPDATE"}

\* C11: connection scoping.  Every connection a call opens is closed when
\* the call is over, whether it returned or raised, so that no connection is
\* open after any sequence of calls; each statement of the call had a
\* connection of its own; the connection of a statement that failed was
\* never committed, and was rolled back when the statement went through
\* sqlite3_safe_execute or sqlite3_safe_execute_binary; a call none of whose
\* writing statements succeeded leaves the table as it was.
C11_ConnectionScoping ==
    /\ open_conns = 0
    /\ Len(conns) = Len(last.log)
    /\ \A i \in DOMAIN conns :
          /\ ~conns[i].open
          /\ ~last.log[i].ok => conns[i].exit # "commit"
          /\ (~last.log[i].ok /\ last.log[i].kind # "SELECT") => conns[i].exit = "rollback"
    /\ (/\ last.op # ""
        /\ \A i \in DOMAIN last.log : last.log[i].kind \in Writes => ~last.log[i].ok)
       => db[last.table] = last.pre

\* sqlite3_add_record has read the schema on one connection and its INSERT
\* has failed on a second one
C11_Witness ==
    /\ last.op = "sqlite3_add_record"
    /\ "IntegrityError" \in Range(last.caught)
    /\ \E i, j \in DOMAIN conns :
          /\ last.log[i].ok /\ conns[i] = [open |-> FALSE, exit |-> "commit"]
          /\ ~last.log[j].ok /\ conns[j] = [open |-> FALSE, exit |-> "rollback"]
    /\ open_conns = 0

====
